---- MODULE Spec2Model ----
(***************************************************************************)
(* DutyCalls notify platform (homeassistant/components/dutycalls/notify.py) *)
(* Setup of the notification service and the path of one notification:     *)
(* data validation, ticket assembly, the remote new_ticket call and the    *)
(* handling of its outcome.                                                *)
(***************************************************************************)
EXTENDS Integers, Sequences, FiniteSets, TLC

VARIABLES
    service,    \* the DutyCallsNotificationService object, or NoService
    setup,      \* the last run of async_get_service: its failure and outcome
    pc,         \* "idle" | "awaiting" (suspended in new_ticket) | "done"
    frame,      \* <<>> or <<[message, kwargs]>>: the running async_send_message
    inflight,   \* <<>> or <<[ticket, targets]>>: the new_ticket request in flight
    ncalls,     \* new_ticket invocations made by the current send
    remote,     \* how the new_ticket call of the current send ended ("" if it has not)
    result,     \* outcome of the most recent send, as its caller sees it
    logged      \* _LOGGER records emitted by the most recent operation

vars == <<service, setup, pc, frame, inflight, ncalls, remote, result, logged>>

-----------------------------------------------------------------------------
(* Bounds of the explored inputs *)

MaxDataKeys == 2    \* keys in one data mapping
MaxListLen == 1     \* objects in a data list
MaxTargets == 2     \* channels in a target list

-----------------------------------------------------------------------------
(* Python values *)

PyInt(n) == [t |-> "int", n |-> n, s |-> ""]
PyStr(s) == [t |-> "str", n |-> 0, s |-> s]
PyNone == [t |-> "NoneType", n |-> 0, s |-> ""]

\* `if v is not None:`, a test that lets 0 and "" through
IsNotNone(v) == v.t # "NoneType"

\* bool(v), as an `if v:` test evaluates it
Truthy(v) ==
    CASE v.t = "int" -> v.n # 0
      [] v.t = "str" -> v.s # ""
      [] OTHER -> FALSE

\* str(v)
StrOf(v) ==
    CASE v.t = "str" -> v.s
      [] v.t = "int" -> ToString(v.n)
      [] OTHER -> "None"

ATTR_DATE_TIME == "date_time"
ATTR_SEVERITY == "severity"
ATTR_SENDER == "sender"
ATTR_LINK == "link"
ATTR_IDENTIFIER == "identifier"

OptionalKeys ==
    {ATTR_DATE_TIME, ATTR_SEVERITY, ATTR_SENDER, ATTR_LINK, ATTR_IDENTIFIER}

-----------------------------------------------------------------------------
(* The data schema *)

Invalid == [ok |-> FALSE, out |-> PyNone]
Valid(v) == [ok |-> TRUE, out |-> v]

\* vol type schema `int`: the value itself when it is an int
vol_int(v) == IF v.t = "int" THEN Valid(v) ELSE Invalid

\* cv.string: None is refused, anything else scalar is coerced with str()
cv_string(v) == IF v.t = "NoneType" THEN Invalid ELSE Valid(PyStr(StrOf(v)))

\* urlparse(url).scheme of the strings the model draws
UrlScheme(s) ==
    CASE s = "https://dc.example/t/1" -> "https"
      [] s = "ftp://dc.example/t/1" -> "ftp"
      [] OTHER -> ""

\* cv.url: str(value) must carry an http or https scheme
cv_url(v) ==
    IF UrlScheme(StrOf(v)) \in {"http", "https"} THEN Valid(PyStr(StrOf(v))) ELSE Invalid

KeyValidator(k, v) ==
    CASE k = ATTR_DATE_TIME -> vol_int(v)
      [] k = ATTR_SEVERITY -> cv_string(v)
      [] k = ATTR_SENDER -> cv_string(v)
      [] k = ATTR_LINK -> cv_url(v)
      [] k = ATTR_IDENTIFIER -> cv_string(v)
      [] OTHER -> Invalid

\* A data value: a mapping (items = <<d>>), a list of mappings, a string,
\* None, or no value at all (the keyword was not passed).
DictData(d) == [kind |-> "dict", items |-> <<d>>]
ListData(l) == [kind |-> "list", items |-> l]
StrData == [kind |-> "str", items |-> <<>>]
NoneData == [kind |-> "NoneType", items |-> <<>>]
MissingData == [kind |-> "missing", items |-> <<>>]
EmptyDict == DictData(<<>>)

\* DATA_TEXT_ONLY_SCHEMA: a mapping with none but the optional keys (extra
\* keys are refused), each value passing its validator
DATA_TEXT_ONLY_SCHEMA(e) ==
    IF e.kind # "dict" THEN [ok |-> FALSE, out |-> <<>>]
    ELSE LET d == e.items[1]
         IN IF /\ DOMAIN d \subseteq OptionalKeys
               /\ \A k \in DOMAIN d : KeyValidator(k, d[k]).ok
            THEN [ok |-> TRUE, out |-> [k \in DOMAIN d |-> KeyValidator(k, d[k]).out]]
            ELSE [ok |-> FALSE, out |-> <<>>]

\* cv.ensure_list: None -> [], a list -> itself, anything else -> [value]
ensure_list(v) ==
    CASE v.kind = "list" -> [i \in 1..Len(v.items) |-> DictData(v.items[i])]
      [] v.kind \in {"NoneType", "missing"} -> <<>>
      [] OTHER -> <<v>>

\* DATA_SCHEMA = vol.All(cv.ensure_list, [vol.Any(DATA_TEXT_ONLY_SCHEMA)])
DATA_SCHEMA(v) ==
    LET l == ensure_list(v)
    IN [ok |-> \A i \in 1..Len(l) : DATA_TEXT_ONLY_SCHEMA(l[i]).ok,
        out |-> [i \in 1..Len(l) |-> DATA_TEXT_ONLY_SCHEMA(l[i]).out]]

-----------------------------------------------------------------------------
(* Inputs *)

ExtraKey == "priority"      \* a key the schema does not know
AllKeys == OptionalKeys \cup {ExtraKey}

KeyValues(k) ==
    CASE k = ATTR_DATE_TIME -> {PyInt(0), PyInt(1700), PyStr("soon")}
      [] k = ATTR_SEVERITY -> {PyStr("high"), PyInt(3)}
      [] k = ATTR_SENDER -> {PyStr("hub"), PyNone}
      [] k = ATTR_LINK -> {PyStr("https://dc.example/t/1"), PyStr("ftp://dc.example/t/1")}
      [] k = ATTR_IDENTIFIER -> {PyStr("id-1"), PyStr("")}
      [] OTHER -> {PyStr("p1")}

AllValues == UNION {KeyValues(k) : k \in AllKeys}

\* the mappings with at most MaxDataKeys keys
DataDicts ==
    UNION {{d \in [K -> AllValues] : \A k \in K : d[k] \in KeyValues(k)} :
           K \in {S \in SUBSET AllKeys : Cardinality(S) <= MaxDataKeys}}

\* the objects a data list is made of: valid ones and an invalid one
ListItems ==
    {d \in DataDicts : \/ DOMAIN d = {}
                       \/ DOMAIN d = {ATTR_SEVERITY}
                       \/ DOMAIN d = {ATTR_SENDER}}

SeqsUpTo(S, n) == UNION {[1..m -> S] : m \in 0..n}

DataArgs ==
    {MissingData, NoneData, StrData}
        \cup {DictData(d) : d \in DataDicts}
        \cup {ListData(l) : l \in SeqsUpTo(ListItems, MaxListLen)}

Channels == {"c1", "c2"}
DefaultChannels == {"ops", "c1"}

TargetArgs ==
    {[kind |-> "missing", items |-> <<>>], [kind |-> "NoneType", items |-> <<>>]}
        \cup {[kind |-> "list", items |-> l] : l \in SeqsUpTo(Channels, MaxTargets)}

TitleArgs == {[present |-> FALSE, v |-> PyNone], [present |-> TRUE, v |-> PyStr("t1")]}

Messages == {"m1", "m2"}

Kwargs == [title : TitleArgs, target : TargetArgs, data : DataArgs]

Configs == [default_channel : DefaultChannels, username : {"user"}, password : {"secret"}]

\* what constructing the client or the service may raise ("none": nothing)
RuntimeErrors == {"RuntimeError", "NotImplementedError"}   \* RuntimeError and a subclass
Failures == {"none", "ValueError", "TypeError"} \cup RuntimeErrors
Stages == {"client", "service"}

\* how the awaited new_ticket call may end
Outcomes ==
    {"ok", "DutyCallsAuthError", "DutyCallsRequestError", "TimeoutError", "ValueError"}

-----------------------------------------------------------------------------
(* async_get_service *)

NoConfig == [default_channel |-> "", username |-> "", password |-> ""]
NoService == [present |-> FALSE, default_channel |-> "", client |-> [login |-> "", password |-> ""]]

\* Client(login=..., password=...)
Client(login, password) == [login |-> login, password |-> password]

\* DutyCallsNotificationService.__init__
NewService(default_channel, client) ==
    [present |-> TRUE, default_channel |-> default_channel, client |-> client]

\* a bare `except Exception`
CatchesAnything(exc) == TRUE

\* `except RuntimeError`
SetupCatches(exc) == exc \in RuntimeErrors

async_get_service(config, failure, stage) ==
    /\ pc = "idle"
    /\ ~service.present
    /\ IF failure = "none"
       THEN /\ service' = NewService(config.default_channel,
                                     Client(config.username, config.password))
            /\ setup' = [ran |-> TRUE, config |-> config, failure |-> failure, stage |-> stage,
                         kind |-> "returned", value |-> "service"]
            /\ logged' = {}
       ELSE IF SetupCatches(failure)
       THEN /\ service' = NoService
            /\ setup' = [ran |-> TRUE, config |-> config, failure |-> failure, stage |-> stage,
                         kind |-> "returned", value |-> "None"]
            /\ logged' = {"Error in creating a new DutyCalls ticket"}
       ELSE /\ service' = NoService
            /\ setup' = [ran |-> TRUE, config |-> config, failure |-> failure, stage |-> stage,
                         kind |-> "raised", value |-> failure]
            /\ logged' = {}
    /\ UNCHANGED <<pc, frame, inflight, ncalls, remote, result>>

-----------------------------------------------------------------------------
(* DutyCallsNotificationService.async_send_message / _async_post_ticket *)

\* data = kwargs.get(ATTR_DATA) or {}
DataTruthy(v) ==
    CASE v.kind = "dict" -> DOMAIN v.items[1] # {}
      [] v.kind = "list" -> Len(v.items) > 0
      [] v.kind = "str" -> TRUE
      [] OTHER -> FALSE
GetData(kw) == IF DataTruthy(kw.data) THEN kw.data ELSE EmptyDict

\* the try/except around DATA_SCHEMA(data): the validated output is dropped,
\* data is kept as given when valid and replaced by {} when not
ValidatedData(data) == IF DATA_SCHEMA(data).ok THEN data ELSE EmptyDict

\* targets = kwargs.get(ATTR_TARGET, [self._default_channel])
GetTargets(kw, default_channel) ==
    IF kw.target.kind = "missing"
    THEN [kind |-> "list", items |-> <<default_channel>>]
    ELSE kw.target

\* title = kwargs.get(ATTR_TITLE)
GetTitle(kw) == IF kw.title.present THEN kw.title.v ELSE PyNone

\* data.get(key) on a mapping
DictGet(d, k) == IF k \in DOMAIN d THEN d[k] ELSE PyNone

\* the ticket key date_time is stored under (not the name of the data key)
KEY_DATE_TIME_UNMAPPED == "date_time"
KEY_DATE_TIME == "dateTime"

\* `if value: ticket_dict[key] = value`
SetIfTruthy(ticket, key, value) ==
    IF Truthy(value) THEN (key :> value) @@ ticket ELSE ticket

\* the ticket_dict _async_post_ticket assembles
TicketDict(title, body, date_time, severity, sender, link, identifier) ==
    LET t0 == ("title" :> title) @@ ("body" :> body)
        t1 == SetIfTruthy(t0, KEY_DATE_TIME, date_time)
        t2 == SetIfTruthy(t1, "severity", severity)
        t3 == SetIfTruthy(t2, "sender", sender)
        t4 == SetIfTruthy(t3, "link", link)
    IN SetIfTruthy(t4, "identifier", identifier)

NoResult == [kind |-> "pending", value |-> ""]
Returned == [kind |-> "returned", value |-> "None"]
Raised(exc) == [kind |-> "raised", value |-> exc]

\* everything async_send_message does up to the await of new_ticket, except
\* for what it does to the service object
SendEffects(message, kw) ==
    LET data0 == GetData(kw)
        data == ValidatedData(data0)
        targets == GetTargets(kw, service.default_channel)
        title == GetTitle(kw)
        body == PyStr(message)
    IN /\ frame' = <<[message |-> message, kwargs |-> kw]>>
       /\ remote' = ""
       /\ logged' = IF DATA_SCHEMA(data0).ok THEN {} ELSE {"Invalid message data"}
       /\ IF data.kind # "dict"
          THEN \* data.get on a list
               /\ result' = Raised("AttributeError")
               /\ pc' = "done"
               /\ inflight' = <<>>
               /\ ncalls' = 0
          ELSE IF targets.kind # "list"
          THEN \* *targets on None
               /\ result' = Raised("TypeError")
               /\ pc' = "done"
               /\ inflight' = <<>>
               /\ ncalls' = 0
          ELSE /\ result' = NoResult
               /\ pc' = "awaiting"
               /\ inflight' =
                      LET d == data.items[1]
                      IN <<[ticket |-> TicketDict(title, body,
                                                 DictGet(d, ATTR_DATE_TIME),
                                                 DictGet(d, ATTR_SEVERITY),
                                                 DictGet(d, ATTR_SENDER),
                                                 DictGet(d, ATTR_LINK),
                                                 DictGet(d, ATTR_IDENTIFIER)),
                            targets |-> targets.items]>>
               /\ ncalls' = 1

\* a send that remembers its first target as the new default channel
async_send_message_rebind(message, kw) ==
    /\ pc = "idle"
    /\ service.present
    /\ SendEffects(message, kw)
    /\ service' = IF kw.target.kind = "list" /\ Len(kw.target.items) > 0
                  THEN [service EXCEPT !.default_channel = kw.target.items[1]]
                  ELSE service
    /\ UNCHANGED setup

async_send_message(message, kw) ==
    /\ pc = "idle"
    /\ service.present
    /\ SendEffects(message, kw)
    /\ UNCHANGED <<service, setup>>

\* the first except clause alone
PostCatchesAuthOnly(exc) == exc = "DutyCallsAuthError"

\* the except clauses around `await self._client.new_ticket(...)`
PostCatches(exc) == exc \in {"DutyCallsAuthError", "DutyCallsRequestError"}

\* a resumption that calls new_ticket once more after a caught error
new_ticket_returns_retry(outcome) ==
    /\ pc = "awaiting"
    /\ IF outcome # "ok" /\ PostCatches(outcome) /\ ncalls < 2
       THEN /\ ncalls' = ncalls + 1
            /\ logged' = logged \cup {"Error while posting the ticket"}
            /\ UNCHANGED <<pc, inflight, remote, result>>
       ELSE /\ pc' = "done"
            /\ inflight' = <<>>
            /\ remote' = outcome
            /\ result' = IF outcome = "ok" \/ PostCatches(outcome)
                         THEN Returned ELSE Raised(outcome)
            /\ UNCHANGED <<ncalls, logged>>
    /\ UNCHANGED <<service, setup, frame>>

\* new_ticket ends and _async_post_ticket resumes
new_ticket_returns(outcome) ==
    /\ pc = "awaiting"
    /\ pc' = "done"
    /\ inflight' = <<>>
    /\ remote' = outcome
    /\ IF outcome = "ok"
       THEN result' = Returned /\ logged' = logged
       ELSE IF PostCatches(outcome)
       THEN result' = Returned /\ logged' = logged \cup {"Error while posting the ticket"}
       ELSE result' = Raised(outcome) /\ logged' = logged
    /\ UNCHANGED <<service, setup, frame, ncalls>>

\* the coroutine is over: its frame is gone, its caller holds the outcome
send_returns ==
    /\ pc = "done"
    /\ pc' = "idle"
    /\ frame' = <<>>
    /\ UNCHANGED <<service, setup, inflight, ncalls, remote, result, logged>>

-----------------------------------------------------------------------------

Init ==
    /\ service = NoService
    /\ setup = [ran |-> FALSE, config |-> NoConfig, failure |-> "none",
                stage |-> "client", kind |-> "", value |-> ""]
    /\ pc = "idle"
    /\ frame = <<>>
    /\ inflight = <<>>
    /\ ncalls = 0
    /\ remote = ""
    /\ result = NoResult
    /\ logged = {}

\* (the guards are repeated in front of the quantifiers so that the inputs
\* are only enumerated in the states where the operation can start)
DoSetup ==
    /\ pc = "idle"
    /\ \E c \in Configs, f \in Failures, st \in Stages : async_get_service(c, f, st)
DoSend ==
    /\ pc = "idle"
    /\ \E m \in Messages, kw \in Kwargs : async_send_message(m, kw)
DoResume ==
    /\ pc = "awaiting"
    /\ \E o \in Outcomes : new_ticket_returns(o)

Next == DoSetup \/ DoSend \/ DoResume \/ send_returns

Spec == Init /\ [][Next]_vars

-----------------------------------------------------------------------------
(* Properties *)

Cur == frame[1]
Kw == Cur.kwargs
Ticket == inflight[1].ticket

\* the name a data key has in the ticket
MappedName(k) == IF k = "date_time" THEN "dateTime" ELSE k

\* a value an `if` takes as false: None, 0, the empty string
Falsy(v) == v = PyNone \/ v = PyInt(0) \/ v = PyStr("")

GivenTitle == IF Kw.title.present THEN Kw.title.v ELSE PyNone

\* the data of the running send is a mapping that passes the schema
MappingPasses == Kw.data.kind = "dict" /\ DATA_SCHEMA(Kw.data).ok

\* the data of the running send fails the schema
DataFails == ~DATA_SCHEMA(GetData(Kw)).ok

\* the optional data the running send works with once validation is over
Accepted == IF MappingPasses THEN Kw.data.items[1] ELSE <<>>

\* C1: when the data is a mapping that passes the schema, every optional key
\* it holds with a truthy value is in the ticket handed to new_ticket, under
\* its mapped name and with the very value given, and title and body are the
\* given title and message.
C1_ValidDataRoundTrips ==
    (pc = "awaiting" /\ MappingPasses) =>
        LET d == Kw.data.items[1]
        IN /\ \A k \in DOMAIN d :
                ~Falsy(d[k]) =>
                    MappedName(k) \in DOMAIN Ticket /\ Ticket[MappedName(k)] = d[k]
           /\ Ticket["title"] = GivenTitle
           /\ Ticket["body"] = PyStr(Cur.message)

C1_Witness ==
    /\ pc = "awaiting"
    /\ MappingPasses
    /\ DOMAIN Kw.data.items[1] = {"date_time", "severity"}
    /\ Kw.data.items[1]["severity"] = PyInt(3)
    /\ DOMAIN Ticket = {"title", "body", "dateTime", "severity"}
    /\ Ticket["dateTime"] = PyInt(1700)
    /\ Ticket["severity"] = PyInt(3)
    /\ Kw.title.present

\* C2: a send whose data fails the schema does not raise, and new_ticket is
\* still called, with a ticket whose keys are exactly title and body.  (An
\* error of new_ticket itself is not counted as the send raising.)
C2_InvalidDataStillPosts ==
    (pc # "idle" /\ DataFails) =>
        /\ ncalls = 1
        /\ result.kind = "raised" => result.value = remote
        /\ pc = "awaiting" => DOMAIN Ticket = {"title", "body"}

\* C3: when new_ticket fails with an authentication or a request error, the
\* send returns None to its caller, as it does on success.
C3_RemoteErrorsSwallowed ==
    (pc = "done" /\ remote \in {"ok", "DutyCallsAuthError", "DutyCallsRequestError"}) =>
        result = [kind |-> "returned", value |-> "None"]

C3_Witness ==
    /\ pc = "done"
    /\ remote = "DutyCallsRequestError"
    /\ result.kind = "returned"
    /\ "Error while posting the ticket" \in logged

\* C4: the keys of the ticket handed to new_ticket are exactly title, body
\* and the mapped names of the optional fields whose accepted value is
\* present and truthy; a missing or falsy field has no key.
C4_AbsentFieldsOmitted ==
    pc = "awaiting" =>
        DOMAIN Ticket =
            {"title", "body"} \cup
            {MappedName(k) : k \in {x \in DOMAIN Accepted \cap OptionalKeys :
                                        ~Falsy(Accepted[x])}}

C4_Witness ==
    /\ pc = "awaiting"
    /\ MappingPasses
    /\ DOMAIN Accepted = {"date_time", "identifier"}
    /\ Accepted["date_time"] = PyInt(0)
    /\ Accepted["identifier"] = PyStr("")
    /\ DOMAIN Ticket = {"title", "body"}

\* C5: given targets, new_ticket receives them in their order; given no
\* targets (the argument missing, or None), new_ticket receives the one
\* configured default channel and the send does not raise.
C5_TargetsOrDefault ==
    pc # "idle" =>
        IF Kw.target.kind = "list"
        THEN pc = "awaiting" => inflight[1].targets = Kw.target.items
        ELSE /\ result # Raised("TypeError")
             /\ pc = "awaiting" => inflight[1].targets = <<service.default_channel>>

\* C6: a non-empty list of objects, each with allowed keys and well-typed
\* values, passes validation, and the send goes on to the ticket and to
\* new_ticket without raising.
C6_ListOfObjectsAccepted ==
    (/\ pc # "idle"
     /\ Kw.data.kind = "list"
     /\ Len(Kw.data.items) > 0
     /\ \A i \in 1..Len(Kw.data.items) : DATA_TEXT_ONLY_SCHEMA(DictData(Kw.data.items[i])).ok) =>
        /\ "Invalid message data" \notin logged
        /\ result # Raised("AttributeError")

\* C7 as claimed: whatever fails while the client or the service is built,
\* setup does not let it through, logs it and returns None.
C7_AnyFailureCaught ==
    (setup.ran /\ setup.failure # "none") =>
        /\ setup.kind = "returned"
        /\ setup.value = "None"
        /\ "Error in creating a new DutyCalls ticket" \in logged
        /\ ~service.present

\* C7 amended: a RuntimeError (or a subclass of it) raised while the client
\* or the service is built is logged and setup returns None; a failure of
\* any other kind leaves setup as raised; a service exists exactly when
\* nothing failed.
C7_RuntimeErrorCaught ==
    /\ (setup.ran /\ setup.failure \in {"RuntimeError", "NotImplementedError"}) =>
            /\ setup.kind = "returned"
            /\ setup.value = "None"
            /\ "Error in creating a new DutyCalls ticket" \in logged
    /\ (setup.ran /\ setup.failure \notin {"none", "RuntimeError", "NotImplementedError"}) =>
            /\ setup.kind = "raised"
            /\ setup.value = setup.failure
    /\ service.present <=> (setup.ran /\ setup.failure = "none")
    /\ service.present => setup.kind = "returned" /\ setup.value = "service"

C7_Witness ==
    /\ setup.ran
    /\ setup.failure = "NotImplementedError"
    /\ setup.stage = "service"
    /\ setup.kind = "returned"
    /\ setup.value = "None"
    /\ ~service.present
    /\ "Error in creating a new DutyCalls ticket" \in logged

\* C8: a send that ends without an uncaught exception has called new_ticket
\* exactly once, whether validation passed or failed and however the call
\* ended; the call is never made again after an error; and when the call is
\* made, validation is over and the ticket is assembled.
C8_SingleRemoteCall ==
    /\ ncalls <= 1
    /\ (pc = "done" /\ result.kind = "returned") => ncalls = 1 /\ remote # ""
    /\ pc = "awaiting" =>
            /\ ncalls = 1
            /\ Len(inflight) = 1
            /\ {"title", "body"} \subseteq DOMAIN Ticket
            /\ ("Invalid message data" \in logged) <=> DataFails

C8_Witness ==
    /\ pc = "done"
    /\ result.kind = "returned"
    /\ remote = "DutyCallsAuthError"
    /\ DataFails
    /\ ncalls = 1

\* C9: an error of new_ticket that is neither an authentication nor a
\* request error is not swallowed: it reaches the caller of the send.
C9_OtherErrorsPropagate ==
    (pc = "done" /\ remote \notin {"", "ok", "DutyCallsAuthError", "DutyCallsRequestError"}) =>
        result = [kind |-> "raised", value |-> remote]

C9_Witness ==
    /\ pc = "done"
    /\ remote = "TimeoutError"
    /\ result = [kind |-> "raised", value |-> "TimeoutError"]

\* C10: a ticket holds nothing but what its own send was given (its title,
\* its message, values of its own data under their mapped names), also when
\* an earlier send failed validation or met a remote error, and no send
\* changes the default channel or the client handle the service was set up
\* with.
C10_CallsIndependent ==
    /\ pc = "awaiting" =>
            \A n \in DOMAIN Ticket :
                CASE n = "title" -> Ticket[n] = GivenTitle
                  [] n = "body" -> Ticket[n] = PyStr(Cur.message)
                  [] OTHER -> /\ Kw.data.kind = "dict"
                              /\ \E k \in DOMAIN Kw.data.items[1] :
                                    MappedName(k) = n /\ Ticket[n] = Kw.data.items[1][k]
    /\ service.present =>
            /\ service.default_channel = setup.config.default_channel
            /\ service.client = [login |-> setup.config.username,
                                 password |-> setup.config.password]

C10_Witness ==
    /\ pc = "awaiting"
    /\ result.kind = "pending"
    /\ logged = {}
    /\ Kw.target.kind = "list"
    /\ Kw.target.items = <<"c2">>
    /\ service.default_channel = "ops"
    /\ "sender" \in DOMAIN Ticket

====
